---- MODULE Spec2Model ----
(***************************************************************************)
(* Model of es-license-validator: the license validation engine            *)
(* (pkg/license/validator.go), the status classification of the phone-home *)
(* client (pkg/phonehome/client.go) and the validation cycle of the        *)
(* service (cmd/validator/main.go).                                        *)
(*                                                                         *)
(* Time is counted in clock ticks of 12 hours (Day = 2 ticks), so that     *)
(* "expired less than 24 hours ago" is a representable instant.            *)
(* Formatted texts (errors, messages) are sequences of their parts: the    *)
(* literal pieces of the format string and the substituted arguments.      *)
(***************************************************************************)
EXTENDS Integers, Sequences, FiniteSets, TLC

VARIABLES
    cfg,            \* config.Config: the fields the validation cycle reads
    secret,         \* the token stored in the license Secret
    clock,          \* wall clock (time.Now()), in ticks
    currentResult,  \* ValidatorService.currentResult (NIL before the first cycle)
    lastCall,       \* history: the inputs of the most recent validation cycle
    dispatched,     \* PhoneHomeRequest built by the report goroutine of the most recent cycle
    probe,          \* a ValidationResult handed directly to the classification functions
    probeOut,       \* their outputs for probe
    timing,         \* config.Config: the durations (in seconds) and the retry count
    secs,           \* the clock of timers and context deadlines, in seconds
    reports,        \* the SendPhoneHome calls made so far, in the order they were started
    loop,           \* validationLoop: its ticker, its context and its position
    handler,        \* a statusHandler invocation: its position and the response it builds
    stored          \* history: every result that has been the current result

\* the variables of the reporter, the validation loop and the HTTP handlers
extVars == <<timing, secs, reports, loop, handler, stored>>

vars == <<cfg, secret, clock, currentResult, lastCall, dispatched, probe, probeOut,
          timing, secs, reports, loop, handler, stored>>

----------------------------------------------------------------------------
(* Bounds and scales *)

\* 24 hours, in ticks
Day == 2
\* largest clock value explored
MaxTime == 8
\* largest number of ticks that pass between the time check inside the JWT
\* library and the time.Now() of the expiration check
MaxSkew == 3

\* largest value of the seconds clock explored for a single SendPhoneHome call
MaxSendSecs == 15
\* largest retry count explored
MaxRetries == 3
MaxServiceSecs == 4
MaxCycles == 2
MaxStored == 3

\* nil pointer / nil interface
NIL == [nil |-> TRUE]
\* nil error: a text with no parts
NoError == << >>
\* time.Time{} (the zero time, long before every clock value)
ZeroTime == -1

----------------------------------------------------------------------------
(* JWT tokens *)

\* a claim of the decoded claim map: absent, a JSON number or a JSON string
Absent == [t |-> "absent", n |-> 0, s |-> ""]
Num(x) == [t |-> "num", n |-> x, s |-> ""]
Str(x) == [t |-> "str", n |-> 0, s |-> x]

\* the algorithm family *jwt.SigningMethodRSA registers
RSAMethods == {"RS256", "RS384", "RS512"}
\* every algorithm the library has a signing method for
KnownMethods == RSAMethods \cup {"PS512", "HS256", "HS512", "ES512", "none"}
\* header algorithms offered to the validator; "" is a header without alg
HeaderAlgs == {"RS512", "RS256", "RS384", "PS512", "HS256", "none", "XX999", ""}

MkToken(alg, sig, exp, nbf, ns, nodes, grace) ==
    [shape |-> "jwt", alg |-> alg, sig |-> sig,
     claims |-> [exp |-> exp, nbf |-> nbf, namespace |-> ns,
                 licensed_nodes |-> nodes, grace_period_days |-> grace]]

ExpiresAtValue == 2

\* licenses issued by the vendor: RS512, good signature
SignedTokens ==
    { MkToken("RS512", TRUE, Num(ExpiresAtValue), Absent, Str(ns), nodes, grace) :
        ns \in {"prod", "Prod"},
        nodes \in {Absent, Num(5)},
        grace \in {Absent, Num(1), Num(7)} }
    \cup { MkToken("RS512", TRUE, Num(ExpiresAtValue), Absent, Absent, Num(5), Num(7)),
           MkToken("RS512", TRUE, Num(ExpiresAtValue), Absent, Str("prod"), Num(1), Num(7)),
           MkToken("RS512", TRUE, Num(ExpiresAtValue), Num(1), Str("prod"), Num(5), Num(7)),
           MkToken("RS512", TRUE, Num(ExpiresAtValue), Absent, Str("prod"), Str("5"), Num(7)) }

\* the same license body under every other header algorithm with a signature
\* that verifies under the trusted key with that algorithm, under the RSA
\* algorithms with a signature that does not, and a string that is not a JWT
OtherTokens ==
    { MkToken(alg, TRUE, Num(ExpiresAtValue), Absent, Str("prod"), Num(5), Num(7)) :
        alg \in HeaderAlgs \ {"RS512"} }
    \cup { MkToken(alg, FALSE, Num(ExpiresAtValue), Absent, Str("prod"), Num(5), Num(7)) :
        alg \in RSAMethods }
    \cup { [shape |-> "malformed", alg |-> "", sig |-> FALSE,
            claims |-> [exp |-> Absent, nbf |-> Absent, namespace |-> Absent,
                        licensed_nodes |-> Absent, grace_period_days |-> Absent]] }

Tokens == SignedTokens \cup OtherTokens

\* node counts the node counter reports
NodeCounts == {0, 1, 5, 6}
\* namespaces the validator is deployed in (LICENSE_SECRET_NAMESPACE is never empty)
Namespaces == {"prod", "Prod"}

\* what reading the license secret yields: an API error, a secret without the
\* license key, or the token stored under the key
SecretReads == {"read_error", "key_missing", "token"}

\* what CountLabeledNodes returns
CountOutcomes ==
    { [err |-> FALSE, n |-> k] : k \in NodeCounts } \cup { [err |-> TRUE, n |-> 0] }

----------------------------------------------------------------------------
(* Texts *)

RECURSIVE Contains(_, _)
\* the text has the part p
Contains(text, p) ==
    IF text = << >> THEN FALSE
    ELSE Head(text) = p \/ Contains(Tail(text), p)

----------------------------------------------------------------------------
(* github.com/golang-jwt/jwt/v5, as Validate uses it *)

\* the Keyfunc Validate passes: the type assertion token.Method.(*jwt.SigningMethodRSA)
KeyFuncAccepts(alg) == alg \in RSAMethods

\* jwt.ParseWithClaims with the default parser options, at library time t:
\* the error text, or NoError
JwtParse(token, t) ==
    IF token.shape # "jwt" THEN
        <<"token is malformed">>
    ELSE IF token.alg = "" THEN
        <<"token is unverifiable: ", "signing method (alg) is unspecified">>
    ELSE IF token.alg \notin KnownMethods THEN
        <<"token is unverifiable: ", "signing method (alg) is unavailable">>
    ELSE IF ~KeyFuncAccepts(token.alg) THEN
        <<"token is unverifiable: ", "error while executing keyfunc: ",
          "unexpected signing method: ", token.alg>>
    ELSE IF ~token.sig THEN
        <<"token signature is invalid">>
    ELSE IF token.claims.exp.t = "str" \/ token.claims.nbf.t = "str" THEN
        <<"token has invalid claims: ", "invalid type for claim">>
    ELSE IF token.claims.exp.t = "num" /\ ~(t < token.claims.exp.n) THEN
        <<"token has invalid claims: ", "token is expired">>
    ELSE IF token.claims.nbf.t = "num" /\ t < token.claims.nbf.n THEN
        <<"token has invalid claims: ", "token is not valid yet">>
    ELSE NoError

----------------------------------------------------------------------------
(* pkg/license/validator.go *)

\* the type assertions of parseLicense: a claim of another type, or an absent
\* one, leaves the field at its zero value
AsString(c) == IF c.t = "str" THEN c.s ELSE ""
AsInt(c) == IF c.t = "num" THEN c.n ELSE 0
AsTime(c) == IF c.t = "num" THEN c.n ELSE ZeroTime

\* parseLicense: the License decoded from the claims (its error is always nil)
parseLicense(claims) ==
    [ExpiresAt |-> AsTime(claims.exp),
     NotBefore |-> AsTime(claims.nbf),
     Namespace |-> AsString(claims.namespace),
     LicensedNodes |-> AsInt(claims.licensed_nodes),
     GracePeriodDays |-> AsInt(claims.grace_period_days)]

\* int(x / y) of Go: the quotient truncated toward zero (y > 0)
TruncDiv(x, y) == IF x >= 0 THEN x \div y ELSE -((-x) \div y)

\* mutant: the quotient rounded down instead of truncated
DaysUntilExpiry_Floor(expiresAt, now) == (expiresAt - now) \div Day

\* int(license.ExpiresAt.Sub(now).Hours() / 24)
DaysUntilExpiry(expiresAt, now) == TruncDiv(expiresAt - now, Day)

\* mutant: the expiry instant itself still counted as valid
ExpiryValid_Inclusive(expiresAt, now) == now <= expiresAt

\* now.Before(license.ExpiresAt)
ExpiryValid(expiresAt, now) == now < expiresAt

\* license.ExpiresAt.AddDate(0, 0, days)
AddDate(t, days) == t + days * Day

\* now.After(license.ExpiresAt) && now.Before(gracePeriodEnd)
IsInGracePeriod(expiresAt, graceDays, now) ==
    now > expiresAt /\ now < AddDate(expiresAt, graceDays)

\* mutant: a strict ceiling
NodeCountValid_Strict(actualNodeCount, licensedNodes) == actualNodeCount < licensedNodes

\* actualNodeCount <= license.LicensedNodes
NodeCountValid(actualNodeCount, licensedNodes) == actualNodeCount <= licensedNodes

\* lower-casing of the namespaces of the model
ToLower(str) == IF str = "Prod" THEN "prod" ELSE str

\* mutant: a case-insensitive comparison (strings.EqualFold)
NamespaceValid_EqualFold(actualNamespace, licenseNamespace) ==
    ToLower(actualNamespace) = ToLower(licenseNamespace)

\* actualNamespace == license.Namespace
NamespaceValid(actualNamespace, licenseNamespace) == actualNamespace = licenseNamespace

\* mutant: the node count check left out of the conjunction
OverallValid_NoNodeCount(r) ==
    r.SignatureValid /\ (r.ExpiryValid \/ r.IsInGracePeriod) /\ r.NamespaceValid

\* the overall validity of a result whose sub-checks are set
OverallValid(r) ==
    r.SignatureValid /\ (r.ExpiryValid \/ r.IsInGracePeriod)
        /\ r.NodeCountValid /\ r.NamespaceValid

\* the namespace mismatch error
NamespaceError(licenseNamespace, actualNamespace) ==
    <<"namespace mismatch: license is for namespace '", licenseNamespace,
      "' but validator is running in '", actualNamespace, "'">>

\* a ValidationResult with every field at its zero value
ZeroResult ==
    [Valid |-> FALSE, License |-> NIL, Error |-> NoError, ExpiresAt |-> ZeroTime,
     DaysUntilExpiry |-> 0, IsInGracePeriod |-> FALSE, NodeCount |-> 0,
     LicensedNodes |-> 0, NodeCountValid |-> FALSE, NamespaceValid |-> FALSE,
     ActualNamespace |-> "", LicenseNamespace |-> "", SignatureValid |-> FALSE,
     ExpiryValid |-> FALSE, ValidationTime |-> ZeroTime]

\* Validator.Validate. The clock is read where the result is created (t0),
\* inside the JWT library's claims validation (tJwt) and at the expiration
\* check (now). When the library returns no error token.Valid is true and the
\* claims are the *jwt.MapClaims passed in, so the "invalid JWT claims" return
\* is never taken; parseLicense never returns an error.
Validate(licenseJWT, actualNodeCount, actualNamespace, t0, tJwt, now) ==
    LET result == [ZeroResult EXCEPT !.ValidationTime = t0,
                                     !.NodeCount = actualNodeCount,
                                     !.ActualNamespace = actualNamespace]
        err == JwtParse(licenseJWT, tJwt)
    IN  IF err # NoError THEN
            [result EXCEPT !.Error = <<"JWT validation failed: ">> \o err,
                           !.Valid = FALSE]
        ELSE
            LET license == parseLicense(licenseJWT.claims)
                r1 == [result EXCEPT
                         !.SignatureValid = TRUE,
                         !.License = license,
                         !.ExpiresAt = license.ExpiresAt,
                         !.LicensedNodes = license.LicensedNodes,
                         !.LicenseNamespace = license.Namespace,
                         !.DaysUntilExpiry = DaysUntilExpiry(license.ExpiresAt, now),
                         !.ExpiryValid = ExpiryValid(license.ExpiresAt, now),
                         !.IsInGracePeriod =
                             IsInGracePeriod(license.ExpiresAt, license.GracePeriodDays, now),
                         !.NodeCountValid =
                             NodeCountValid(actualNodeCount, license.LicensedNodes),
                         !.NamespaceValid =
                             NamespaceValid(actualNamespace, license.Namespace)]
                r2 == [r1 EXCEPT !.Valid = OverallValid(r1)]
            IN  IF ~r2.NamespaceValid THEN
                    [r2 EXCEPT !.Error = NamespaceError(license.Namespace, actualNamespace),
                               !.Valid = FALSE]
                ELSE r2

----------------------------------------------------------------------------
(* pkg/phonehome/client.go *)

\* mutant: the node count rule tried before the grace period rule
getValidationStatus_NodesFirst(result) ==
    IF result.Valid THEN "valid"
    ELSE IF ~result.NodeCountValid THEN "node_limit_exceeded"
    ELSE IF result.IsInGracePeriod THEN "grace_period"
    ELSE IF ~result.ExpiryValid THEN "expired"
    ELSE IF ~result.SignatureValid THEN "invalid_signature"
    ELSE "invalid"

getValidationStatus(result) ==
    IF result.Valid THEN "valid"
    ELSE IF result.IsInGracePeriod THEN "grace_period"
    ELSE IF ~result.ExpiryValid THEN "expired"
    ELSE IF ~result.NodeCountValid THEN "node_limit_exceeded"
    ELSE IF ~result.SignatureValid THEN "invalid_signature"
    ELSE "invalid"

getValidationMessage(result) ==
    IF result.Valid THEN <<"License is valid">>
    ELSE IF result.Error # NoError THEN result.Error
    ELSE IF result.IsInGracePeriod THEN
        <<"License expired but in grace period (", ToString(-result.DaysUntilExpiry),
          " days until grace period ends)">>
    ELSE IF ~result.ExpiryValid THEN <<"License has expired">>
    ELSE IF ~result.NodeCountValid THEN
        <<"Node count (", ToString(result.NodeCount), ") exceeds licensed nodes (",
          ToString(result.LicensedNodes), ")">>
    ELSE IF ~result.SignatureValid THEN <<"Invalid license signature">>
    ELSE <<"License validation failed">>

\* the PhoneHomeRequest SendPhoneHome builds from a result with a License
PhoneHomeRequest(validationResult) ==
    [NodeCount |-> validationResult.NodeCount,
     LicensedNodes |-> validationResult.LicensedNodes,
     ValidationStatus |-> getValidationStatus(validationResult),
     ValidationMessage |-> getValidationMessage(validationResult),
     DaysUntilExpiry |-> validationResult.DaysUntilExpiry,
     IsInGracePeriod |-> validationResult.IsInGracePeriod]

----------------------------------------------------------------------------
(* cmd/validator/main.go: the validation cycle *)

\* the result runValidation stores when the secret cannot be read or the
\* license key is missing
FailureResult(text, now) ==
    [ZeroResult EXCEPT !.Valid = FALSE, !.Error = text, !.ValidationTime = now]

\* the defaults of LoadConfig, in seconds
DefaultTiming ==
    [ValidationInterval |-> 300, PhoneHomeInterval |-> 86400,
     PhoneHomeTimeout |-> 30, PhoneHomeRetries |-> 3]

\* no report, no loop and no handler running
ExtIdle ==
    /\ timing = DefaultTiming
    /\ secs = 0
    /\ reports = << >>
    /\ loop = NIL
    /\ handler = NIL
    /\ stored = {}

Init ==
    /\ cfg \in [PhoneHomeEnabled : BOOLEAN, LicenseSecretNamespace : Namespaces]
    /\ secret \in Tokens
    /\ clock = 0
    /\ currentResult = NIL
    /\ lastCall = NIL
    /\ dispatched = NIL
    /\ probe = NIL
    /\ probeOut = NIL
    /\ ExtIdle

\* time passes between two cycles
Tick ==
    /\ clock < MaxTime
    /\ clock' = clock + 1
    /\ UNCHANGED <<cfg, secret, currentResult, lastCall, dispatched, probe, probeOut>>
    /\ UNCHANGED extVars

\* runValidation, secret unreadable or without the license key: what it does to
\* the service
CycleNoToken(read) ==
    /\ read # "token"
    /\ currentResult' =
          FailureResult(IF read = "read_error"
                          THEN <<"failed to read license secret: ", "api error">>
                          ELSE <<"license key not found in secret">>, clock)
    /\ lastCall' = [read |-> read, count |-> [err |-> FALSE, n |-> 0],
                    t0 |-> clock, tJwt |-> clock, now |-> clock]
    /\ dispatched' = NIL
    /\ UNCHANGED <<cfg, secret, clock, probe, probeOut>>

\* runValidation, secret unreadable or without the license key
RunValidationNoToken(read) ==
    /\ CycleNoToken(read)
    /\ UNCHANGED extVars

\* runValidation with the token read from the secret: count the nodes (0 when
\* counting fails), validate, store the result and start the report
\* goroutine, which builds its request from the result it captured: what it
\* does to the service
CycleToken(read, count, skew) ==
    /\ read = "token"
    /\ clock + skew <= MaxTime
    /\ LET nodeCount == IF count.err THEN 0 ELSE count.n
           now == clock + skew
           result == Validate(secret, nodeCount, cfg.LicenseSecretNamespace,
                              clock, clock, now)
       IN  /\ currentResult' = result
           /\ lastCall' = [read |-> read, count |-> count,
                           t0 |-> clock, tJwt |-> clock, now |-> now]
           /\ dispatched' = IF cfg.PhoneHomeEnabled /\ result.License # NIL
                               THEN PhoneHomeRequest(result)
                               ELSE NIL
           /\ clock' = now
    /\ UNCHANGED <<cfg, secret, probe, probeOut>>

\* runValidation with the token read from the secret
RunValidationToken(read, count, skew) ==
    /\ CycleToken(read, count, skew)
    /\ UNCHANGED extVars

runValidation ==
    \E read \in SecretReads :
        \/ RunValidationNoToken(read)
        \/ \E count \in CountOutcomes, skew \in 0..MaxSkew :
              RunValidationToken(read, count, skew)

Next == Tick \/ runValidation

Spec == Init /\ [][Next]_vars

----------------------------------------------------------------------------
(* The classification functions on arbitrary results *)

\* results with every combination of the five flags, with and without an error
ProbeResults ==
    { [ZeroResult EXCEPT !.Valid = f[1], !.IsInGracePeriod = f[2], !.ExpiryValid = f[3],
                         !.NodeCountValid = f[4], !.SignatureValid = f[5],
                         !.Error = e, !.NodeCount = n, !.LicensedNodes = 5,
                         !.DaysUntilExpiry = d] :
        f \in [1..5 -> BOOLEAN],
        e \in {NoError, NamespaceError("prod", "Prod")},
        n \in {5, 6},
        d \in {0, -3} }

InitProbe ==
    /\ cfg = [PhoneHomeEnabled |-> TRUE, LicenseSecretNamespace |-> "prod"]
    /\ secret = CHOOSE tk \in Tokens : tk.shape = "malformed"
    /\ clock = 0
    /\ currentResult = NIL
    /\ lastCall = NIL
    /\ dispatched = NIL
    /\ probe \in ProbeResults
    /\ probeOut = NIL
    /\ ExtIdle

Classify ==
    /\ probe # NIL
    /\ probeOut = NIL
    /\ probeOut' = [status |-> getValidationStatus(probe),
                    message |-> getValidationMessage(probe)]
    /\ UNCHANGED <<cfg, secret, clock, currentResult, lastCall, dispatched, probe>>
    /\ UNCHANGED extVars

NextProbe == Classify

SpecProbe == InitProbe /\ [][NextProbe]_vars

----------------------------------------------------------------------------
(* pkg/phonehome/client.go: SendPhoneHome *)

\* a context: a deadline (when it has one) and whether it has been cancelled
Ctx(hasDeadline, deadline) ==
    [hasDeadline |-> hasDeadline, deadline |-> deadline, cancelled |-> FALSE]

\* ctx.Done() is closed at time t
CtxDone(ctx, t) == ctx.cancelled \/ (ctx.hasDeadline /\ t >= ctx.deadline)

\* ctx.Err() of a context that is done
CtxErr(ctx) == IF ctx.cancelled THEN "context canceled" ELSE "context deadline exceeded"

\* httpClient.Do returns an error
TransportFailure == [transport |-> FALSE, code |-> 0, decodable |-> FALSE, status |-> ""]

\* what the endpoint answers to one request: a transport failure, or a
\* response with a status code and a body that decodes (to a status) or not
Responses ==
    { TransportFailure }
    \cup { [transport |-> TRUE, code |-> c, decodable |-> TRUE, status |-> "ok"] :
             c \in {199, 200, 204, 299, 300, 500} }
    \cup { [transport |-> TRUE, code |-> 200, decodable |-> d, status |-> st] :
             d \in BOOLEAN, st \in {"success", "error", "OK", ""} }

\* mutant: the status field of the body not looked at
sendRequest_AnyBody(resp) ==
    IF ~resp.transport THEN <<"failed to send request: ", "transport">>
    ELSE IF resp.code < 200 \/ resp.code >= 300 THEN
        <<"server returned error status: ", ToString(resp.code)>>
    ELSE IF ~resp.decodable THEN <<"failed to decode response: ", "json">>
    ELSE NoError

\* Client.sendRequest: the error of one attempt, or NoError
sendRequest(resp) ==
    IF ~resp.transport THEN <<"failed to send request: ", "transport">>
    ELSE IF resp.code < 200 \/ resp.code >= 300 THEN
        <<"server returned error status: ", ToString(resp.code)>>
    ELSE IF ~resp.decodable THEN <<"failed to decode response: ", "json">>
    ELSE IF resp.status # "success" /\ resp.status # "ok" THEN
        <<"phone home failed: ", "message">>
    ELSE NoError

\* mutant: a linear backoff
Backoff_Linear(attempt) == attempt

\* time.Duration(attempt*attempt) * time.Second
Backoff(attempt) == attempt * attempt

\* mutant: one attempt less
MoreAttempts_OffByOne(attempt, retries) == attempt < retries

\* the loop condition attempt <= c.retries
MoreAttempts(attempt, retries) == attempt <= retries

\* mutant: the backoff is a plain sleep
SelectReady_SleepOnly(r, t) == IF t >= r.wakeAt THEN {"timer"} ELSE {}

\* the cases of the select of a waiting call that are ready at time t
SelectReady(r, t) ==
    (IF CtxDone(r.ctx, t) THEN {"ctx"} ELSE {})
        \cup (IF t >= r.wakeAt THEN {"timer"} ELSE {})

\* SendPhoneHome is called at time t: without a result or a License it returns
\* at once, otherwise it builds the request and starts the first attempt
NewCall(result, retries, clientTimeout, ctx, t) ==
    LET noLicense == (result = NIL) \/ (result.License = NIL)
    IN  [result |-> result, retries |-> retries, clientTimeout |-> clientTimeout,
         ctx |-> ctx, callAt |-> t,
         req |-> IF noLicense THEN NIL ELSE PhoneHomeRequest(result),
         pc |-> IF noLicense THEN "returned" ELSE "sending",
         attempt |-> 0,
         sends |-> IF noLicense THEN 0 ELSE 1,
         sendAt |-> t, waitFrom |-> t, wakeAt |-> t, waited |-> 0,
         lastResp |-> NIL, lastErr |-> NoError,
         ret |-> IF noLicense THEN "validation result or license is nil" ELSE "",
         wrapped |-> NoError,
         retAt |-> t]

\* the attempt in flight must end now: its context is done or the client's
\* timeout has elapsed
SendAborted(r, t) == CtxDone(r.ctx, t) \/ t >= r.sendAt + r.clientTimeout

\* the attempt in flight ends at time t with the endpoint's answer resp; an
\* aborted request ends with the error of httpClient.Do
AfterSend(r, resp, t) ==
    LET got == IF SendAborted(r, t) THEN TransportFailure ELSE resp
        err == sendRequest(got)
        next == r.attempt + 1
        r1 == [r EXCEPT !.lastResp = got]
    IN  IF err = NoError THEN
            [r1 EXCEPT !.pc = "returned", !.ret = "nil", !.retAt = t]
        ELSE IF MoreAttempts(next, r.retries) THEN
            [r1 EXCEPT !.lastErr = err, !.attempt = next, !.pc = "waiting",
                       !.waitFrom = t, !.wakeAt = t + Backoff(next)]
        ELSE
            [r1 EXCEPT !.lastErr = err, !.attempt = next, !.pc = "returned",
                       !.ret = "phone home failed after retries", !.wrapped = err,
                       !.retAt = t]

\* the select of the backoff takes the case c at time t
AfterSelect(r, c, t) ==
    IF c = "ctx"
        THEN [r EXCEPT !.pc = "returned", !.ret = CtxErr(r.ctx), !.retAt = t]
        ELSE [r EXCEPT !.pc = "sending", !.sends = r.sends + 1, !.sendAt = t,
                       !.waited = t - r.waitFrom]

\* the call cannot let time pass: a case of its select is ready, or its
\* attempt must be aborted
Urgent(r, t) ==
    \/ r.pc = "waiting" /\ SelectReady(r, t) # {}
    \/ r.pc = "sending" /\ SendAborted(r, t)

\* mutant: a failed report marks the current result invalid
ResultAfterReport_FailClosed(current, ret) ==
    IF ret # "nil" /\ current # NIL THEN [current EXCEPT !.Valid = FALSE] ELSE current

\* what the report goroutine does to the current result once SendPhoneHome
\* has returned ret: it only logs
ResultAfterReport(current, ret) == current

\* the report goroutine i moves to the state r
ReportStep(i, r) ==
    /\ reports' = [reports EXCEPT ![i] = r]
    /\ currentResult' = IF r.pc = "returned"
                          THEN ResultAfterReport(currentResult, r.ret)
                          ELSE currentResult
    /\ UNCHANGED <<cfg, secret, clock, lastCall, dispatched, probe, probeOut,
                   timing, secs, loop, handler, stored>>

\* the attempt of call i ends
FinishSend(i, resp) ==
    /\ reports[i].pc = "sending"
    /\ ReportStep(i, AfterSend(reports[i], resp, secs))

\* the select of call i returns through ctx.Done()
WakeCtx(i) ==
    /\ reports[i].pc = "waiting"
    /\ "ctx" \in SelectReady(reports[i], secs)
    /\ ReportStep(i, AfterSelect(reports[i], "ctx", secs))

\* the select of call i returns through the timer and the next attempt starts
WakeTimer(i) ==
    /\ reports[i].pc = "waiting"
    /\ "timer" \in SelectReady(reports[i], secs)
    /\ ReportStep(i, AfterSelect(reports[i], "timer", secs))

\* the caller's context is cancelled while call i runs
CancelCtx(i) ==
    /\ reports[i].pc # "returned"
    /\ ~CtxDone(reports[i].ctx, secs)
    /\ reports' = [reports EXCEPT ![i].ctx.cancelled = TRUE]
    /\ UNCHANGED <<cfg, secret, clock, currentResult, lastCall, dispatched, probe,
                   probeOut, timing, secs, loop, handler, stored>>

\* a second passes, unless a call has something to do first
TickSend ==
    /\ secs < MaxSendSecs
    /\ \A i \in 1..Len(reports) : ~Urgent(reports[i], secs)
    /\ secs' = secs + 1
    /\ UNCHANGED <<cfg, secret, clock, currentResult, lastCall, dispatched, probe,
                   probeOut, timing, reports, loop, handler, stored>>

\* the license SendPhoneHome reports in the single-call specification
ReportedToken ==
    MkToken("RS512", TRUE, Num(ExpiresAtValue), Absent, Str("prod"), Num(5), Num(7))

\* results handed to SendPhoneHome: with a License, without one, and nil
SendResults ==
    { Validate(ReportedToken, 5, "prod", 0, 0, 0),
      Validate(ReportedToken, 6, "prod", 0, 0, 0),
      FailureResult(<<"license key not found in secret">>, 0),
      NIL }

\* one SendPhoneHome call, with every retry count and with contexts without
\* deadline and with deadlines
InitSend ==
    /\ cfg = [PhoneHomeEnabled |-> TRUE, LicenseSecretNamespace |-> "prod"]
    /\ secret = ReportedToken
    /\ clock = 0
    /\ currentResult = NIL
    /\ lastCall = NIL
    /\ dispatched = NIL
    /\ probe = NIL
    /\ probeOut = NIL
    /\ secs = 0
    /\ loop = NIL
    /\ handler = NIL
    /\ stored = {}
    /\ \E retries \in 0..MaxRetries, timeout \in {1, 2},
          ctx \in {Ctx(FALSE, 0), Ctx(TRUE, 3), Ctx(TRUE, 6)},
          result \in SendResults :
         /\ timing = [DefaultTiming EXCEPT !.PhoneHomeRetries = retries,
                                           !.PhoneHomeTimeout = timeout]
         /\ reports = <<NewCall(result, retries, timeout, ctx, 0)>>

NextSend ==
    \/ TickSend
    \/ \E resp \in Responses : FinishSend(1, resp)
    \/ WakeCtx(1)
    \/ WakeTimer(1)
    \/ CancelCtx(1)

SpecSend == InitSend /\ [][NextSend]_vars

----------------------------------------------------------------------------
(* cmd/validator/main.go: the validation loop, its reports and shutdown *)

\* answers of the endpoint in the service specification
ServiceResponses ==
    { TransportFailure,
      [transport |-> TRUE, code |-> 200, decodable |-> TRUE, status |-> "ok"] }

\* outcomes of reading the secret in the service specification
ServiceReads == {"read_error", "token"}

\* configured durations in seconds, scaled down: validation intervals below
\* and above the report timeout
ServiceTimings ==
    { [ValidationInterval |-> vi, PhoneHomeInterval |-> 8,
       PhoneHomeTimeout |-> 3, PhoneHomeRetries |-> n] :
        vi \in {2, 4}, n \in {1, 2} }

\* the report goroutine's context: context.Background() with the report timeout
ReportCtx(t) == Ctx(TRUE, t + timing.PhoneHomeTimeout)

\* the service after main has started the loop goroutine: ticker created, no
\* cycle run yet
InitService ==
    /\ cfg = [PhoneHomeEnabled |-> TRUE, LicenseSecretNamespace |-> "prod"]
    /\ secret = ReportedToken
    /\ clock = 0
    /\ currentResult = NIL
    /\ lastCall = NIL
    /\ dispatched = NIL
    /\ probe = NIL
    /\ probeOut = NIL
    /\ timing \in ServiceTimings
    /\ secs = 0
    /\ reports = << >>
    /\ loop = [pc |-> "start", nextTick |-> timing.ValidationInterval,
               pending |-> FALSE, cancelled |-> FALSE, cycles |-> 0]
    /\ handler = NIL
    /\ stored = {}

\* runValidation called by the loop: with the loop's context cancelled the
\* secret read fails; the report goroutine is started with the stored result
ServiceCycle(read) ==
    /\ loop.cycles < MaxCycles
    /\ loop.cancelled => read = "read_error"
    /\ \/ CycleNoToken(read)
       \/ CycleToken(read, [err |-> FALSE, n |-> 5], 0)
    /\ reports' = IF dispatched' # NIL
                    THEN Append(reports,
                                NewCall(currentResult', timing.PhoneHomeRetries,
                                        timing.PhoneHomeTimeout, ReportCtx(secs), secs))
                    ELSE reports
    /\ UNCHANGED <<timing, secs, handler, stored>>

\* validationLoop runs the first cycle at once
FirstCycle ==
    /\ loop.pc = "start"
    /\ \E read \in ServiceReads : ServiceCycle(read)
    /\ loop' = [loop EXCEPT !.pc = "select", !.cycles = loop.cycles + 1]

\* the ticker fires: its channel holds at most one tick
TickerFires ==
    /\ loop.pc # "exited"
    /\ secs = loop.nextTick
    /\ loop' = [loop EXCEPT !.pending = TRUE,
                            !.nextTick = loop.nextTick + timing.ValidationInterval]
    /\ UNCHANGED <<cfg, secret, clock, currentResult, lastCall, dispatched, probe,
                   probeOut, timing, secs, reports, handler, stored>>

\* the select of the loop takes the tick and runs a cycle
LoopCycle ==
    /\ loop.pc = "select"
    /\ loop.pending
    /\ \E read \in ServiceReads : ServiceCycle(read)
    /\ loop' = [loop EXCEPT !.pending = FALSE, !.cycles = loop.cycles + 1]

\* the select of the loop takes ctx.Done() and the loop returns
LoopExit ==
    /\ loop.pc = "select"
    /\ loop.cancelled
    /\ loop' = [loop EXCEPT !.pc = "exited"]
    /\ UNCHANGED <<cfg, secret, clock, currentResult, lastCall, dispatched, probe,
                   probeOut, timing, secs, reports, handler, stored>>

\* main receives the signal and cancels the loop's context; the process ends
\* some time later, when server.Shutdown has returned, which cuts the
\* behaviour short at any later state
Shutdown ==
    /\ ~loop.cancelled
    /\ loop' = [loop EXCEPT !.cancelled = TRUE]
    /\ UNCHANGED <<cfg, secret, clock, currentResult, lastCall, dispatched, probe,
                   probeOut, timing, secs, reports, handler, stored>>

\* a second passes, unless the ticker or a report has something to do first
TickService ==
    /\ secs < MaxServiceSecs
    /\ loop.pc = "exited" \/ secs < loop.nextTick
    /\ \A i \in 1..Len(reports) : ~Urgent(reports[i], secs)
    /\ secs' = secs + 1
    /\ UNCHANGED <<cfg, secret, clock, currentResult, lastCall, dispatched, probe,
                   probeOut, timing, reports, loop, handler, stored>>

NextService ==
    \/ FirstCycle
    \/ TickerFires
    \/ LoopCycle
    \/ LoopExit
    \/ Shutdown
    \/ \E i \in 1..Len(reports) :
          \/ \E resp \in ServiceResponses : FinishSend(i, resp)
          \/ WakeCtx(i)
          \/ WakeTimer(i)
    \/ TickService

SpecService == InitService /\ [][NextService]_vars

----------------------------------------------------------------------------
(* cmd/validator/main.go: statusHandler running beside the validation cycle *)

\* a key that is not in the response, and a key with its value
NoKey == << >>
Key(v) == <<v>>

\* the keys of the response read from the result at main.go:269-279
StatusFields(r) ==
    [validation_time |-> r.ValidationTime, node_count |-> r.NodeCount,
     licensed_nodes |-> r.LicensedNodes, days_until_expiry |-> r.DaysUntilExpiry,
     in_grace_period |-> r.IsInGracePeriod, signature_valid |-> r.SignatureValid,
     expiry_valid |-> r.ExpiryValid, node_count_valid |-> r.NodeCountValid,
     namespace_valid |-> r.NamespaceValid, actual_namespace |-> r.ActualNamespace,
     license_namespace |-> r.LicenseNamespace]

\* the "license" object of the response
StatusLicense(license) ==
    [namespace |-> license.Namespace, expires_at |-> license.ExpiresAt]

\* the response body before any key is set
EmptyResponse ==
    [status |-> NoKey, valid |-> NoKey, fields |-> NoKey, license |-> NoKey,
     error |-> NoKey]

\* the response statusHandler gives when every read of s.currentResult sees
\* the same result r
StatusResponse(r) ==
    IF r = NIL THEN [EmptyResponse EXCEPT !.status = Key("no_validation_result")]
    ELSE [EmptyResponse EXCEPT
            !.valid = Key(r.Valid),
            !.fields = Key(StatusFields(r)),
            !.license = IF r.License # NIL THEN Key(StatusLicense(r.License)) ELSE NoKey,
            !.error = IF r.Error # NoError THEN Key(r.Error) ELSE NoKey]

\* one license in the secret, read in the namespace it is bound to, with
\* both settings of FAIL_OPEN
InitHandler ==
    /\ \E failOpen \in BOOLEAN :
          cfg = [PhoneHomeEnabled |-> FALSE, LicenseSecretNamespace |-> "prod",
                 FailOpen |-> failOpen]
    /\ secret = ReportedToken
    /\ clock \in 0..1
    /\ currentResult = NIL
    /\ lastCall = NIL
    /\ dispatched = NIL
    /\ probe = NIL
    /\ probeOut = NIL
    /\ timing = DefaultTiming
    /\ secs = 0
    /\ reports = << >>
    /\ loop = NIL
    /\ handler = NIL
    /\ stored = {NIL}

\* a validation cycle replaces the current result (main.go:171, 181, 194)
\* while a request is being served or between requests
HandlerCycle ==
    /\ Cardinality(stored) <= MaxStored
    /\ \E read \in SecretReads :
          \/ CycleNoToken(read)
          \/ \E n \in {5, 6}, skew \in 0..MaxSkew :
                CycleToken(read, [err |-> FALSE, n |-> n], skew)
    /\ stored' = stored \cup {currentResult'}
    /\ UNCHANGED <<timing, secs, reports, loop, handler>>

\* the handler goroutine moves on
HandlerStep(pc, resp) ==
    /\ handler' = [pc |-> pc, resp |-> resp]
    /\ UNCHANGED <<cfg, secret, clock, currentResult, lastCall, dispatched, probe,
                   probeOut, timing, secs, reports, loop, stored>>

\* the handler is at the statement pc
HandlerAt(pc) == IF handler = NIL THEN FALSE ELSE handler.pc = pc

\* no request is being served
HandlerIdle ==
    IF handler = NIL THEN TRUE ELSE handler.pc \in {"done", "panic", "readyDone"}

\* a request for /status arrives; line 259: s.currentResult == nil
StatusCheck ==
    /\ HandlerIdle
    /\ IF currentResult = NIL
         THEN HandlerStep("done", [EmptyResponse EXCEPT
                                    !.status = Key("no_validation_result")])
         ELSE HandlerStep("valid", EmptyResponse)

\* line 268: s.currentResult.Valid
StatusValid ==
    /\ HandlerAt("valid")
    /\ HandlerStep("fields", [handler.resp EXCEPT !.valid = Key(currentResult.Valid)])

\* lines 269-279: the other fields of s.currentResult
StatusReadFields ==
    /\ HandlerAt("fields")
    /\ HandlerStep("licenseCheck",
                   [handler.resp EXCEPT !.fields = Key(StatusFields(currentResult))])

\* line 283: s.currentResult.License != nil
StatusLicenseCheck ==
    /\ HandlerAt("licenseCheck")
    /\ HandlerStep(IF currentResult.License # NIL THEN "license" ELSE "errorCheck",
                   handler.resp)

\* lines 284-293: the fields of s.currentResult.License, a nil pointer
\* dereference when the result read now has no License
StatusReadLicense ==
    /\ HandlerAt("license")
    /\ IF currentResult.License = NIL
         THEN HandlerStep("panic", handler.resp)
         ELSE HandlerStep("errorCheck",
                          [handler.resp EXCEPT
                              !.license = Key(StatusLicense(currentResult.License))])

\* line 296: s.currentResult.Error != nil
StatusErrorCheck ==
    /\ HandlerAt("errorCheck")
    /\ HandlerStep(IF currentResult.Error # NoError THEN "error" ELSE "done",
                   handler.resp)

\* line 297: s.currentResult.Error.Error(), a nil dereference when the result
\* read now has no error; then the response is written
StatusReadError ==
    /\ HandlerAt("error")
    /\ IF currentResult.Error = NoError
         THEN HandlerStep("panic", handler.resp)
         ELSE HandlerStep("done", [handler.resp EXCEPT !.error = Key(currentResult.Error)])

\* the response of readyHandler
ReadyResponse(status, valid) ==
    [EmptyResponse EXCEPT !.status = Key(status), !.valid = valid]

\* a request for /ready arrives; line 233: s.currentResult == nil
ReadyCheck ==
    /\ HandlerIdle
    /\ IF currentResult = NIL
         THEN HandlerStep("readyDone", ReadyResponse("not_ready", NoKey))
         ELSE HandlerStep("readyValid", EmptyResponse)

\* line 242, left operand: s.currentResult.Valid
ReadyValid ==
    /\ HandlerAt("readyValid")
    /\ IF currentResult.Valid
         THEN HandlerStep("readyDone", ReadyResponse("ready", NoKey))
         ELSE HandlerStep("readyGrace", handler.resp)

\* line 242, right operand: s.cfg.FailOpen && s.currentResult.IsInGracePeriod
ReadyGrace ==
    /\ HandlerAt("readyGrace")
    /\ IF cfg.FailOpen /\ currentResult.IsInGracePeriod
         THEN HandlerStep("readyDone", ReadyResponse("ready", NoKey))
         ELSE HandlerStep("readyBody", handler.resp)

\* lines 247-252: 503 with s.currentResult.Valid read again
ReadyNotReady ==
    /\ HandlerAt("readyBody")
    /\ HandlerStep("readyDone", ReadyResponse("not_ready", Key(currentResult.Valid)))

NextHandler ==
    \/ HandlerCycle
    \/ ReadyCheck
    \/ ReadyValid
    \/ ReadyGrace
    \/ ReadyNotReady
    \/ StatusCheck
    \/ StatusValid
    \/ StatusReadFields
    \/ StatusLicenseCheck
    \/ StatusReadLicense
    \/ StatusErrorCheck
    \/ StatusReadError

SpecHandler == InitHandler /\ [][NextHandler]_vars

----------------------------------------------------------------------------
(* Properties *)

\* the most recent cycle read a token and handed it to Validate
Validated == lastCall # NIL /\ lastCall.read = "token"

\* ... and Validate decoded a License from it
Verified == Validated /\ currentResult.License # NIL

\* the token in the secret is a license signed by the vendor with RS512
CorrectlySigned == secret.shape = "jwt" /\ secret.alg = "RS512" /\ secret.sig

\* the expires-at instant of the token and the end of its grace period
TokenExpiresAt == secret.claims.exp.n
TokenGraceEnd ==
    TokenExpiresAt + (IF secret.claims.grace_period_days.t = "num"
                        THEN secret.claims.grace_period_days.n ELSE 0) * Day

\* C1: every result stored as the current result has
\* valid == signatureValid && (expiryValid || inGracePeriod) && nodeCountValid && namespaceValid
C1_ValidIsConjunction ==
    currentResult # NIL =>
        (currentResult.Valid <=>
            (/\ currentResult.SignatureValid
             /\ (currentResult.ExpiryValid \/ currentResult.IsInGracePeriod)
             /\ currentResult.NodeCountValid
             /\ currentResult.NamespaceValid))

\* a stored result of Validate that is valid
C1_Witness ==
    /\ Verified
    /\ CorrectlySigned
    /\ currentResult.Valid
    /\ currentResult.NodeCount = currentResult.LicensedNodes

\* C2: a token whose header algorithm is not RS512 yields License == nil,
\* signatureValid == false and valid == false
C2_OnlyRS512Accepted ==
    (Validated /\ ~(secret.shape = "jwt" /\ secret.alg = "RS512")) =>
        /\ currentResult.License = NIL
        /\ ~currentResult.SignatureValid
        /\ ~currentResult.Valid

\* C3: for a verified license, a namespace that differs from the license's
\* gives valid == false, namespaceValid == false and an error naming both
\* namespaces; equal namespaces give no error
C3_NamespaceBinding ==
    Verified =>
        LET licNs == AsString(secret.claims.namespace)
            actual == cfg.LicenseSecretNamespace
        IN  /\ actual # licNs =>
                  /\ ~currentResult.Valid
                  /\ ~currentResult.NamespaceValid
                  /\ currentResult.Error # NoError
                  /\ Contains(currentResult.Error, licNs)
                  /\ Contains(currentResult.Error, actual)
            /\ actual = licNs =>
                  /\ currentResult.NamespaceValid
                  /\ currentResult.Error = NoError

\* a verified license whose namespace differs from the observed one only in
\* case, with every other check passing
C3_Witness ==
    /\ Verified
    /\ CorrectlySigned
    /\ ToLower(currentResult.LicenseNamespace) = ToLower(currentResult.ActualNamespace)
    /\ currentResult.LicenseNamespace # currentResult.ActualNamespace
    /\ currentResult.SignatureValid
    /\ currentResult.ExpiryValid
    /\ currentResult.NodeCountValid
    /\ ~currentResult.Valid

\* C4 as stated: evaluated exactly at expiresAt, a correctly signed license
\* has expiryValid == true and inGracePeriod == false
C4_ValidAtExpiry ==
    (Validated /\ CorrectlySigned /\ lastCall.now = TokenExpiresAt) =>
        /\ currentResult.ExpiryValid
        /\ ~currentResult.IsInGracePeriod

\* C4 as amended: evaluated exactly at expiresAt, the result has
\* expiryValid == false and inGracePeriod == false, so the license is not
\* valid at that instant whatever the other checks say
C4_ExpiredAtExpiry ==
    (Validated /\ CorrectlySigned /\ lastCall.now = TokenExpiresAt) =>
        /\ ~currentResult.ExpiryValid
        /\ ~currentResult.IsInGracePeriod
        /\ ~currentResult.Valid

\* a license that passed the library's checks, evaluated exactly at its
\* expiresAt with signature, capacity and namespace checks passing
C4_Witness ==
    /\ Verified
    /\ CorrectlySigned
    /\ lastCall.now = TokenExpiresAt
    /\ currentResult.SignatureValid
    /\ currentResult.NodeCountValid
    /\ currentResult.NamespaceValid
    /\ ~currentResult.Valid

\* C5: for a correctly signed token, inGracePeriod holds exactly when
\* expiresAt < now < graceEnd and excludes expiryValid; one tick after expiry
\* and before the end of grace the result has a License and is in grace; at
\* or after the end of grace both flags are false
C5_GracePeriod ==
    (Validated /\ CorrectlySigned) =>
        LET now == lastCall.now IN
        /\ currentResult.IsInGracePeriod <=>
              (TokenExpiresAt < now /\ now < TokenGraceEnd)
        /\ currentResult.IsInGracePeriod => ~currentResult.ExpiryValid
        /\ (now = TokenExpiresAt + 1 /\ now < TokenGraceEnd) =>
              /\ currentResult.License # NIL
              /\ currentResult.IsInGracePeriod
              /\ ~currentResult.ExpiryValid
        /\ now >= TokenGraceEnd =>
              /\ ~currentResult.ExpiryValid
              /\ ~currentResult.IsInGracePeriod

\* the node count the cycle observed (0 when counting failed)
ObservedNodeCount == IF lastCall.count.err THEN 0 ELSE lastCall.count.n

\* C6: for a verified license, nodeCountValid holds exactly when the observed
\* node count is at most licensedNodes; an absent licensed_nodes claim
\* decodes to 0 and then every positive node count fails
C6_NodeCountCeiling ==
    Verified =>
        LET licensed == IF secret.claims.licensed_nodes.t = "num"
                          THEN secret.claims.licensed_nodes.n ELSE 0
        IN  /\ currentResult.License.LicensedNodes = licensed
            /\ currentResult.NodeCountValid <=> (ObservedNodeCount <= licensed)
            /\ (secret.claims.licensed_nodes.t = "absent" /\ ObservedNodeCount > 0) =>
                  /\ ~currentResult.NodeCountValid
                  /\ ~currentResult.Valid

\* a verified license without a licensed_nodes claim, checked against a
\* positive node count
C6_Witness ==
    /\ Verified
    /\ CorrectlySigned
    /\ secret.claims.licensed_nodes.t = "absent"
    /\ ObservedNodeCount > 0
    /\ currentResult.NamespaceValid
    /\ currentResult.ExpiryValid
    /\ ~currentResult.NodeCountValid

\* q is x / Day truncated toward zero
IsTruncatedQuotient(q, x) ==
    IF x >= 0 THEN q * Day <= x /\ x < (q + 1) * Day
              ELSE (q - 1) * Day < x /\ x <= q * Day

\* C7 as stated: daysUntilExpiry is the truncated quotient of
\* (expiresAt - now) by 24 hours and is negative whenever now > expiresAt
C7_NegativeOnceExpired ==
    (Verified /\ CorrectlySigned) =>
        /\ IsTruncatedQuotient(currentResult.DaysUntilExpiry,
                               TokenExpiresAt - lastCall.now)
        /\ lastCall.now > TokenExpiresAt => currentResult.DaysUntilExpiry < 0

\* C7 as amended: in a result with a License, daysUntilExpiry is the truncated
\* quotient of (expiresAt - now) by 24 hours, and 0 in a result without one;
\* once the license is expired it is never positive, and it is negative only
\* from 24 hours after expiry on
C7_TruncatedDays ==
    (Validated /\ CorrectlySigned) =>
        /\ currentResult.License # NIL =>
              IsTruncatedQuotient(currentResult.DaysUntilExpiry,
                                  TokenExpiresAt - lastCall.now)
        /\ currentResult.License = NIL => currentResult.DaysUntilExpiry = 0
        /\ lastCall.now > TokenExpiresAt => currentResult.DaysUntilExpiry <= 0
        /\ currentResult.DaysUntilExpiry < 0 => lastCall.now >= TokenExpiresAt + Day
        /\ (currentResult.License # NIL /\ lastCall.now >= TokenExpiresAt + Day) =>
              currentResult.DaysUntilExpiry < 0

\* a license that expired exactly 24 hours ago
C7_Witness ==
    /\ Verified
    /\ CorrectlySigned
    /\ lastCall.now = TokenExpiresAt + Day
    /\ currentResult.DaysUntilExpiry = -1

\* C8: the status is the one of the first matching rule, in the order valid,
\* grace period, expired, node limit exceeded, invalid signature, invalid
C8_StatusPrecedence ==
    probeOut # NIL =>
        LET st == probeOut.status IN
        /\ probe.Valid => st = "valid"
        /\ (~probe.Valid /\ probe.IsInGracePeriod) => st = "grace_period"
        /\ (~probe.Valid /\ ~probe.IsInGracePeriod /\ ~probe.ExpiryValid) =>
              st = "expired"
        /\ (~probe.Valid /\ ~probe.IsInGracePeriod /\ probe.ExpiryValid
               /\ ~probe.NodeCountValid) => st = "node_limit_exceeded"
        /\ (~probe.Valid /\ ~probe.IsInGracePeriod /\ probe.ExpiryValid
               /\ probe.NodeCountValid /\ ~probe.SignatureValid) =>
              st = "invalid_signature"
        /\ (~probe.Valid /\ ~probe.IsInGracePeriod /\ probe.ExpiryValid
               /\ probe.NodeCountValid /\ probe.SignatureValid) => st = "invalid"

\* a result in grace with the node count exceeded, classified
C8_Witness ==
    /\ probeOut # NIL
    /\ ~probe.Valid
    /\ probe.IsInGracePeriod
    /\ ~probe.NodeCountValid
    /\ probeOut.status = "grace_period"

\* C9: the message of a report belongs to the rule that produced its status,
\* and the error's text is the message only under the status "invalid"
C9_MessageFollowsStatus ==
    dispatched # NIL =>
        LET st == dispatched.ValidationStatus
            msg == dispatched.ValidationMessage
        IN  /\ st = "valid" => msg = <<"License is valid">>
            /\ st = "grace_period" =>
                  Head(msg) = "License expired but in grace period ("
            /\ st = "expired" => msg = <<"License has expired">>
            /\ st = "node_limit_exceeded" =>
                  msg = <<"Node count (", ToString(currentResult.NodeCount),
                          ") exceeds licensed nodes (",
                          ToString(currentResult.LicensedNodes), ")">>
            /\ st = "invalid_signature" => msg = <<"Invalid license signature">>
            /\ (currentResult.Error # NoError /\ msg = currentResult.Error) =>
                  st = "invalid"

\* C10: licensedNodes=5, gracePeriodDays=7, namespace "prod", evaluated 3 days
\* after expiresAt with 5 nodes in namespace "prod": valid=false,
\* inGracePeriod=true, expiryValid=false, nodeCountValid=true,
\* namespaceValid=true and the reported status is "grace_period"
C10_EndToEndGrace ==
    (/\ Validated
     /\ secret = MkToken("RS512", TRUE, Num(ExpiresAtValue), Absent, Str("prod"),
                         Num(5), Num(7))
     /\ cfg.LicenseSecretNamespace = "prod"
     /\ cfg.PhoneHomeEnabled
     /\ lastCall.count = [err |-> FALSE, n |-> 5]
     /\ lastCall.now = ExpiresAtValue + 3 * Day) =>
        /\ ~currentResult.Valid
        /\ currentResult.IsInGracePeriod
        /\ ~currentResult.ExpiryValid
        /\ currentResult.NodeCountValid
        /\ currentResult.NamespaceValid
        /\ dispatched # NIL
        /\ dispatched.ValidationStatus = "grace_period"

----------------------------------------------------------------------------
(* Properties of SendPhoneHome *)

CtxErrors == {"context canceled", "context deadline exceeded"}

Exhausted == "phone home failed after retries"

Calls == 1..Len(reports)

\* C11: a call that returns neither nil nor the context's error nor the
\* missing-license error returns the retries-exhausted error, after exactly
\* retries + 1 attempts, wrapping the error of the last attempt; a call whose
\* last permitted attempt has failed has returned; and no call makes more than
\* retries + 1 attempts
C11_ExactlyNPlusOneAttempts ==
    \A i \in Calls :
        LET r == reports[i]
        IN  /\ r.sends <= r.retries + 1
            /\ (r.pc = "returned" /\ r.req # NIL /\ r.ret # "nil"
                    /\ r.ret \notin CtxErrors) =>
                  /\ r.ret = Exhausted
                  /\ r.sends = r.retries + 1
                  /\ r.wrapped = r.lastErr
                  /\ r.wrapped # NoError
            /\ (r.pc = "waiting") => r.sends <= r.retries
            /\ (r.ret = Exhausted) => r.sends = r.retries + 1

C11_Witness ==
    /\ Len(reports) = 1
    /\ reports[1].ret = Exhausted
    /\ reports[1].retries = 3
    /\ reports[1].sends = 4
    /\ ~CtxDone(reports[1].ctx, secs)

C13_CancelAbortsWait ==
    [][\A i \in Calls :
          (/\ reports[i].pc = "waiting"
           /\ CtxDone(reports[i].ctx, secs)
           /\ secs < reports[i].wakeAt) =>
             /\ secs' = secs
             /\ Len(reports') >= i
             /\ (reports'[i] # reports[i]) =>
                   /\ reports'[i].pc = "returned"
                   /\ reports'[i].ret \in CtxErrors
                   /\ reports'[i].sends = reports[i].sends
                   /\ reports'[i].retAt = secs]_vars

C13_Witness ==
    /\ Len(reports) = 1
    /\ reports[1].pc = "returned"
    /\ reports[1].ret = "context canceled"
    /\ reports[1].attempt = 2
    /\ reports[1].sends = 2
    /\ reports[1].retries >= 2
    /\ reports[1].retAt < reports[1].wakeAt

\* the outcome of an attempt that counts as success
AttemptSucceeded(resp) ==
    /\ resp.transport
    /\ resp.code >= 200 /\ resp.code <= 299
    /\ resp.decodable
    /\ resp.status \in {"success", "ok"}

\* C14: the latest finished attempt is a success exactly when the transport
\* succeeded, the status code is 2xx and the decoded status is "success" or
\* "ok"; the call returns nil exactly then, with that attempt its last one;
\* any other outcome is counted as a failed attempt
C14_SuccessCriterion ==
    \A i \in Calls :
        LET r == reports[i]
        IN  /\ (r.lastResp # NIL) =>
                  /\ AttemptSucceeded(r.lastResp) <=> (r.ret = "nil")
                  /\ ~AttemptSucceeded(r.lastResp) =>
                        /\ r.lastErr # NoError
                        /\ r.attempt >= 1
                        /\ \/ r.pc \in {"waiting", "sending"} /\ r.attempt <= r.retries
                           \/ r.pc = "returned" /\ r.ret \in CtxErrors
                           \/ r.pc = "returned" /\ r.ret = Exhausted
                                 /\ r.attempt = r.retries + 1
            /\ (r.ret = "nil") =>
                  /\ r.pc = "returned"
                  /\ r.lastResp # NIL
                  /\ r.sends = r.attempt + 1

C14_Witness ==
    /\ Len(reports) = 1
    /\ reports[1].ret = "nil"
    /\ reports[1].sends = 2
    /\ reports[1].lastResp.status = "success"

----------------------------------------------------------------------------
(* Properties of the service: cycles, reports and shutdown *)

\* calls that have not returned
InFlight == { i \in Calls : reports[i].pc # "returned" }

\* C15: a step of a report goroutine (an attempt ending in success or failure,
\* a wake-up, a return with nil, with the retries error or with the context's
\* error) leaves the current result and the result the report was given as
\* they are; and whenever the loop has a tick to take, the cycle can run,
\* whatever the reports of earlier cycles are doing
C15_FailOpen ==
    /\ [][\A i \in Calls :
            (reports'[i] # reports[i]) =>
               /\ currentResult' = currentResult
               /\ reports'[i].result = reports[i].result
               /\ reports'[i].req = reports[i].req]_vars
    /\ []((loop # NIL /\ loop.pc = "select" /\ loop.pending
              /\ loop.cycles < MaxCycles) => ENABLED LoopCycle)

\* a report has failed with the retries error, the current result is still
\* the valid one, and the next cycle ran while that report was retrying
C15_Witness ==
    /\ Len(reports) = 2
    /\ reports[1].ret = Exhausted
    /\ reports[2].callAt < reports[1].retAt
    /\ reports[1].result.Valid
    /\ currentResult # NIL
    /\ currentResult.Valid

\* C16: at most one SendPhoneHome call is in flight
C16_AtMostOneInFlight == Cardinality(InFlight) <= 1

\* C18: once the loop's context is cancelled, no time passes while a report is
\* in flight, and no report starts another attempt
C18_ShutdownCancelsReports ==
    [][\A i \in Calls :
          (loop # NIL /\ loop.cancelled /\ reports[i].pc # "returned") =>
             /\ secs' = secs
             /\ reports'[i].sends = reports[i].sends]_vars

\* C19: a license signed by the vendor whose licensed_nodes claim is a string
\* is rejected: the stored result has an error, no License and valid = false
C19_IllTypedClaimsRejected ==
    (Validated /\ CorrectlySigned /\ secret.claims.licensed_nodes.t = "str") =>
        /\ currentResult.Error # NoError
        /\ currentResult.License = NIL
        /\ ~currentResult.Valid

\* C20: two reports are dispatched at least one phone-home interval apart
C20_PhoneHomeInterval ==
    \A i, j \in Calls :
        (i < j) => reports[j].callAt - reports[i].callAt >= timing.PhoneHomeInterval

----------------------------------------------------------------------------
(* Properties of the status endpoint *)

\* C17: every response statusHandler has written is the response computed
\* from one of the results stored so far
C17_ResponseFromOneResult ==
    HandlerAt("done") =>
        \E r \in stored : handler.resp = StatusResponse(r)

----------------------------------------------------------------------------
(* Properties of the readiness endpoint and of the License reads *)

\* the handler writes the response "ready" in this step
AnswersReady ==
    /\ handler' # handler
    /\ handler'.pc = "readyDone"
    /\ handler'.resp.status = Key("ready")

\* C21: whenever readyHandler answers ready, the current result has
\* namespaceValid and nodeCountValid
C21_ReadyNeverMasksFailure ==
    [][AnswersReady =>
          /\ currentResult.NamespaceValid
          /\ currentResult.NodeCountValid]_vars

\* C22: when statusHandler, having seen a License, reads the License's
\* fields, the current result has a License
C22_NoNilLicenseDereference ==
    [][(HandlerAt("license") /\ handler' # handler) =>
          currentResult.License # NIL]_vars

============================================================================
